---- MODULE Spec2Model ----
(***************************************************************************)
(* A model of the merge paths of real-earth-3d.                            *)
(*                                                                         *)
(*   SpecSplat     : merge_splats.main and merge_splats.merge_splats, the  *)
(*                   point-cloud (PLY) merge: header reader, header        *)
(*                   parser, record reader, alignment, attribute transform *)
(*                   and writer.                                           *)
(*   SpecSfm       : 9_merge_expansion_model_into_main_model.py,           *)
(*                   register_new_images, the structure-from-motion merge, *)
(*                   which copies the main model and drives the external   *)
(*                   colmap tools.                                         *)
(*   SpecAlign     : merge_splats.find_transformation_matrix on clouds     *)
(*                   whose normalisation is exact in integers.             *)
(*   SpecTransform : merge_splats.apply_transformation on rows of          *)
(*                   fractions.                                            *)
(*   SpecPar       : two merge_splats processes and the files they write.  *)
(*   SpecText      : the line parsers of images.txt and points3D.txt.      *)
(*   SpecAlignLive : SpecAlign with a function that keeps running.         *)
(*   SpecJob       : server.py, one splat job: the request that registers  *)
(*                   it, the background thread process_splat_job and the   *)
(*                   status requests served while the thread runs.         *)
(*   SpecJobLive   : SpecJob with a background thread that keeps running.  *)
(*                                                                         *)
(* In SpecSplat file bodies are modelled by their length in bytes; the     *)
(* values of the records are not part of that specification.               *)
(***************************************************************************)
EXTENDS Integers, Sequences, FiniteSets, TLC

\* ------------------------------------------------------------------ bounds
MaxProps == 3
MaxCount == 1
MaxRecs == 3
MaxExtra == 1
MaxPastEof == 1
MaxSample == 2
MaxId == 2
MaxCoord == 1
MaxSpread == 2
MaxScale == 2
MaxIter == 3
MaxShift == 1
MaxAppearance == 1
MaxTime == 2
MaxFields == 10
MaxLines == 2
MaxObs == 1
MaxRequests == 2

\* ------------------------------------------------ program constants (sizes)
FloatSize == 4
DoubleSize == 8
UcharSize == 1
UintSize == 4
PositionCols == 3
PoseArity == 10
PointArity == 8
ObsArity == 3

VARIABLES
    pc,          \* position in merge_splats
    err,         \* the exception merge_splats raised, "none" while it runs
    file1,       \* splat1_path: [exists, lines, binTail]
    file2,       \* splat2_path: [exists, terminated, binTail]
    header,      \* read_ply_header's list `header`
    hreads,      \* readline() calls of the header read under way
    properties,  \* merge_splats' list `properties`: <<name, format char>>
    vertex_count,
    struct_size,
    body1, body2,   \* byte length of each file's binary region, -1 before it is read
    data1, data2,   \* len(data1), len(data2): records decoded, -1 before it is read
    sample_size,    \* alignment_sample_size
    sample1, sample2,  \* len(sample_positions1), len(sample_positions2)
    combined,       \* combined_data, <<>> before the merge
    out,            \* the output file: [exists, declared, props, bodyLen, rows]
    rpc,            \* position in register_new_images
    rerr,           \* the exception register_new_images raised
    mainModel,      \* the model under main_model_path
    stagingModel,   \* the model under staging_model_path
    merged,         \* the model under output_path
    imageList,      \* the names written to temp_image_list.txt
    tempList,       \* whether temp_image_list.txt exists
    apc,            \* position in find_transformation_matrix
    source_arg, target_arg,   \* its arguments source_points and target_points
    known,          \* the scale and translation that made target_arg of source_arg
    max_iterations,
    iteration,      \* turns of the loop taken
    source_points, target_normalized,
    source_centroid, target_centroid,
    source_scale, target_scale,
    prev_error,
    transformation,
    final_transformation,
    tpc,            \* position in apply_transformation
    layout,         \* the attribute each column of points_data holds
    points_data, transform_arg, scale_properties,   \* its arguments
    result,
    ppc,            \* position of each merge_splats process
    output_dir,     \* the output_dir argument of each process
    stamp,          \* the second datetime.now() gives each process
    matplotlib,     \* whether matplotlib can be imported
    dirs,           \* the directories that exist
    writes,         \* [path, by]: the paths written and the process writing
    parser,         \* the function decoding a model text file
    textLines,      \* the field count of each data line of the file
    lineno,         \* data lines decoded
    accepted,       \* lines the function took as records
    xpc, xerr,      \* its position and the exception it met
    splat_jobs,     \* the dict splat_jobs: job id -> the keys the model follows
    jpc,            \* position of the thread running process_splat_job
    hpc,            \* position of the request get_splat_status serves
    response,       \* the dict `response` of that request
    requests        \* status requests received

splatVars == <<pc, err, file1, file2, header, hreads, properties, vertex_count,
               struct_size, body1, body2, data1, data2, sample_size, sample1,
               sample2, combined, out>>
sfmVars == <<rpc, rerr, mainModel, stagingModel, merged, imageList, tempList>>
alignVars == <<apc, source_arg, target_arg, known, max_iterations, iteration,
               source_points, target_normalized, source_centroid, target_centroid,
               source_scale, target_scale, prev_error, transformation,
               final_transformation>>
transformVars == <<tpc, layout, points_data, transform_arg, scale_properties, result>>
parVars == <<ppc, output_dir, stamp, matplotlib, dirs, writes>>
textVars == <<parser, textLines, lineno, accepted, xpc, xerr>>
jobVars == <<splat_jobs, jpc, hpc, response, requests>>
vars == <<splatVars, sfmVars, alignVars, transformVars, parVars, textVars, jobVars>>

\* What the actions of one specification leave alone.
notSplat == <<sfmVars, alignVars, transformVars, parVars, textVars,
              jobVars>>
notSfm == <<splatVars, alignVars, transformVars, parVars, textVars,
            jobVars>>
notAlign == <<splatVars, sfmVars, transformVars, parVars, textVars,
              jobVars>>
notTransform == <<splatVars, sfmVars, alignVars, parVars, textVars,
                  jobVars>>
notPar == <<splatVars, sfmVars, alignVars, transformVars, textVars,
            jobVars>>
notText == <<splatVars, sfmVars, alignVars, transformVars, parVars, jobVars>>
notJob == <<splatVars, sfmVars, alignVars, transformVars, parVars, textVars>>

\* The state of a function that is not invoked.
AlignIdle ==
    /\ apc = "idle"
    /\ source_arg = <<>> /\ target_arg = <<>>
    /\ known = [scale |-> 1, translation |-> <<0, 0, 0>>]
    /\ max_iterations = 0 /\ iteration = 0
    /\ source_points = <<>> /\ target_normalized = <<>>
    /\ source_centroid = <<0, 0, 0>> /\ target_centroid = <<0, 0, 0>>
    /\ source_scale = 0 /\ target_scale = 0
    /\ prev_error = 0
    /\ transformation = <<>> /\ final_transformation = <<>>
TransformIdle ==
    /\ tpc = "idle" /\ layout = <<>> /\ points_data = <<>>
    /\ transform_arg = <<>> /\ scale_properties = FALSE /\ result = <<>>
ParIdle ==
    /\ ppc = <<>> /\ output_dir = <<>> /\ stamp = <<>>
    /\ matplotlib = FALSE /\ dirs = {} /\ writes = {}
TextIdle ==
    /\ parser = "none" /\ textLines = <<>> /\ lineno = 0 /\ accepted = 0
    /\ xpc = "idle" /\ xerr = "none"
JobIdle ==
    /\ splat_jobs = <<>> /\ jpc = "idle" /\ hpc = "idle"
    /\ response = <<>> /\ requests = 0
RestIdle == AlignIdle /\ TransformIdle /\ ParIdle /\ TextIdle /\ JobIdle

\* ------------------------------------------------------------ PLY header
\* The numeric type names of the modelled headers: one of each size class
\* of the type_map of parse_property_type (a 4-byte float, an 8-byte float,
\* an integer), and "int" for a type the type_map does not list.
TypeStrs == {"float", "double", "uchar", "int"}

Line(k, t, n) == [k |-> k, t |-> t, n |-> n]
MagicLine == Line("ply", "", 0)
FormatLine == Line("format", "", 0)
ElementLine(n) == Line("element vertex", "", n)
PropertyLine(t, i) == Line("property", t, i)
EndHeaderLine == Line("end_header", "", 0)
EmptyLine == Line("", "", 0)

\* The property types of a header: all of one type, or floats followed by one
\* property of any type.
Schemas ==
    {s \in UNION {[1..n -> TypeStrs] : n \in 0..MaxProps} :
        \/ \A i \in 1..Len(s) : s[i] = s[1]
        \/ \A i \in 1..(Len(s) - 1) : s[i] = "float"}

HeaderLines(cnt, types, term) ==
    <<MagicLine, FormatLine, ElementLine(cnt)>>
        \o [i \in 1..Len(types) |-> PropertyLine(types[i], i)]
        \o (IF term THEN <<EndHeaderLine>> ELSE <<>>)

\* A file is its header lines and, for a file with no end_header line, whether
\* bytes that are not ASCII follow the text.
Terminated(f) == Len(f.lines) > 0 /\ f.lines[Len(f.lines)] = EndHeaderLine

\* A path that names no file.
NoFile1 == [exists |-> FALSE, lines |-> <<>>, binTail |-> FALSE]
NoFile2 == [exists |-> FALSE, terminated |-> FALSE, binTail |-> FALSE, types |-> <<>>]

Files1 ==
    {f \in {[exists |-> TRUE, lines |-> HeaderLines(c, s, t), binTail |-> b] :
               c \in 0..MaxCount, s \in Schemas, t \in BOOLEAN, b \in BOOLEAN} :
        Terminated(f) => ~f.binTail}
        \cup {NoFile1}

\* Of splat2_path the code reads the header only to skip it: whether it ends,
\* and the types of the properties it declares, which the code never looks at.
Schemas2 == {[i \in 1..PositionCols |-> t] : t \in {"float", "double"}}
Files2 == {f \in [exists : {TRUE}, terminated : BOOLEAN, binTail : BOOLEAN,
                  types : Schemas2] :
             f.terminated => ~f.binTail}
            \cup {NoFile2}

\* parse_property_type: the struct format character of a type name.
parse_property_type(type_str) ==
    CASE type_str \in {"float", "float32"} -> "f"
      [] type_str \in {"double", "float64"} -> "d"
      [] type_str \in {"uchar", "uint8"} -> "B"
      [] type_str \in {"uint", "uint32"} -> "I"
      [] OTHER -> "f"

KnownTypes == {"float", "float32", "double", "float64", "uchar", "uint8", "uint", "uint32"}

\* struct.calcsize of one format character under "<" (no padding).
FmtSize(c) ==
    CASE c = "f" -> FloatSize
      [] c = "d" -> DoubleSize
      [] c = "B" -> UcharSize
      [] c = "I" -> UintSize

RECURSIVE SumSizes(_)
SumSizes(props) ==
    IF props = <<>> THEN 0 ELSE FmtSize(Head(props)[2]) + SumSizes(Tail(props))

\* struct.calcsize('<' + ''.join(p[1] for p in properties))
calcsize(props) == SumSizes(props)

\* merge_splats lines 202-210: the loop over header1.
RECURSIVE ParseProps(_)
ParseProps(hdr) ==
    IF hdr = <<>> THEN <<>>
    ELSE IF Head(hdr).k = "property"
         THEN <<(<<Head(hdr).n, parse_property_type(Head(hdr).t)>>)>> \o ParseProps(Tail(hdr))
         ELSE ParseProps(Tail(hdr))

RECURSIVE ParseCount(_, _)
ParseCount(hdr, acc) ==
    IF hdr = <<>> THEN acc
    ELSE ParseCount(Tail(hdr), IF Head(hdr).k = "element vertex" THEN Head(hdr).n ELSE acc)

NoOut == [exists |-> FALSE, declared |-> 0, props |-> <<>>, bodyLen |-> 0, rows |-> 0]
NoModel == [cameras |-> {}, poses |-> {}, points |-> {}]

SfmIdle ==
    /\ rpc = "idle" /\ rerr = "none"
    /\ mainModel = NoModel /\ stagingModel = NoModel /\ merged = NoModel
    /\ imageList = {} /\ tempList = FALSE

\* The merge starts in main() or, called as a function, in merge_splats.
InitSplat ==
    /\ pc \in {"main", "open1"} /\ err = "none"
    /\ file1 \in Files1
    /\ file2 \in Files2
    /\ sample_size \in 1..MaxSample
    /\ sample1 = -1 /\ sample2 = -1
    /\ header = <<>> /\ hreads = 0
    /\ properties = <<>> /\ vertex_count = 0 /\ struct_size = 0
    /\ body1 = -1 /\ body2 = -1 /\ data1 = -1 /\ data2 = -1 /\ combined = <<>>
    /\ out = NoOut
    /\ SfmIdle /\ RestIdle

\* ------------------------------------------------------------------ main
openRaisesOther(f) == IF f.exists THEN "none" ELSE "PermissionError"

\* open(path, 'rb'): the exception it raises, "none" when the path names a file.
open(f) == IF f.exists THEN "none" ELSE "FileNotFoundError"

\* main() lines 310-330: a path that names no file is reported and main
\* returns 1 without calling merge_splats. An exception of merge_splats is
\* printed by main, which returns 1 as well: `err` holds it in either case.
Main ==
    /\ pc = "main"
    /\ IF ~file1.exists \/ ~file2.exists
       THEN pc' = "failed" /\ err' = "not found"
       ELSE pc' = "open1" /\ err' = err
    /\ UNCHANGED <<file1, file2, header, hreads, properties, vertex_count,
                   struct_size, body1, body2, data1, data2, sample_size, sample1,
                   sample2, combined, out, notSplat>>

\* merge_splats lines 190-198: output_dir.mkdir, then open(splat1_path, 'rb').
OpenSplat1 ==
    /\ pc = "open1"
    /\ IF open(file1) # "none"
       THEN pc' = "failed" /\ err' = open(file1)
       ELSE pc' = "header1" /\ err' = err
    /\ UNCHANGED <<file1, file2, header, hreads, properties, vertex_count,
                   struct_size, body1, body2, data1, data2, sample_size, sample1,
                   sample2, combined, out, notSplat>>

\* ------------------------------------------------------- read_ply_header
\* One turn of the loop of read_ply_header on splat1_path: readline() returns
\* the next line, or b'' at end of file; the line is appended; the loop ends
\* only on 'end_header'. A line that is not ASCII makes decode('ascii') raise.
ReadHeader1Line ==
    /\ pc = "header1"
    /\ hreads < Len(file1.lines) + MaxPastEof
    /\ hreads' = hreads + 1
    /\ IF hreads < Len(file1.lines)
       THEN /\ header' = Append(header, file1.lines[hreads + 1])
            /\ IF file1.lines[hreads + 1] = EndHeaderLine
               THEN pc' = "parse" /\ err' = err
               ELSE pc' = pc /\ err' = err
       ELSE IF file1.binTail
            THEN /\ header' = header
                 /\ pc' = "failed" /\ err' = "UnicodeDecodeError"
            ELSE /\ header' = Append(header, EmptyLine)
                 /\ pc' = pc /\ err' = err
    /\ UNCHANGED <<file1, file2, properties, vertex_count, struct_size,
                   body1, body2, data1, data2, sample_size, sample1, sample2,
                   combined, out, notSplat>>

\* merge_splats lines 201-214.
ParseHeader ==
    /\ pc = "parse"
    /\ properties' = ParseProps(header)
    /\ vertex_count' = ParseCount(header, 0)
    /\ struct_size' = calcsize(ParseProps(header))
    /\ pc' = "read1"
    /\ hreads' = 0
    /\ UNCHANGED <<err, file1, file2, header, body1, body2, data1, data2,
                   sample_size, sample1, sample2, combined, out, notSplat>>

\* ------------------------------------------------------- read_splat_data
\* The byte lengths a binary region is drawn from: up to MaxRecs whole records
\* of `size` bytes and up to MaxExtra bytes more.
BodyLens(size) == {n * size + e : n \in 0..MaxRecs, e \in 0..MaxExtra}

\* The chunk loop of read_splat_data (lines 221-228): the number of records
\* appended to `data` from a binary region of `remaining` bytes.
\* f.read(0) returns b'' at once; otherwise every turn takes one whole chunk
\* until fewer than `size` bytes remain (b'' or a short chunk: break).
ReadRecords(remaining, size, n) ==
    IF size = 0 THEN n ELSE n + remaining \div size

\* read_splat_data(splat1_path), line 232. The header of splat1_path ended
\* once already, so skipping it ends again.
ReadData1 ==
    /\ pc = "read1"
    /\ \E b \in BodyLens(struct_size) :
         /\ body1' = b
         /\ data1' = ReadRecords(b, struct_size, 0)
    /\ pc' = "header2"
    /\ UNCHANGED <<err, file1, file2, header, hreads, properties, vertex_count,
                   struct_size, body2, data2, sample_size, sample1, sample2,
                   combined, out, notSplat>>

\* open(splat_path, 'rb') (line 219) and read_ply_header(f) inside
\* read_splat_data(splat2_path): the lines up to end_header are skipped in one
\* step; with no end_header the loop goes on reading b'' at end of file, or
\* decode('ascii') raises on the binary bytes.
SkipHeader2 ==
    /\ pc = "header2"
    /\ IF open(file2) # "none"
       THEN pc' = "failed" /\ err' = open(file2) /\ hreads' = hreads
       ELSE IF file2.terminated
       THEN pc' = "read2" /\ err' = err /\ hreads' = 0
       ELSE IF file2.binTail
            THEN pc' = "failed" /\ err' = "UnicodeDecodeError" /\ hreads' = hreads
            ELSE /\ hreads < MaxPastEof
                 /\ pc' = pc /\ err' = err /\ hreads' = hreads + 1
    /\ UNCHANGED <<file1, file2, header, properties, vertex_count, struct_size,
                   body1, body2, data1, data2, sample_size, sample1, sample2,
                   combined, out, notSplat>>

\* The size of the records of a file whose header declares `types`.
RecordSize(types) ==
    calcsize([i \in 1..Len(types) |-> <<i, parse_property_type(types[i])>>])

\* read_splat_data(splat2_path), line 233: the binary region of splat2_path,
\* which holds records of its own header's size, is decoded with the struct
\* format of splat1_path's header.
ReadData2 ==
    /\ pc = "read2"
    /\ \E b \in BodyLens(RecordSize(file2.types)) :
         /\ body2' = b
         /\ data2' = ReadRecords(b, struct_size, 0)
    /\ pc' = "positions"
    /\ UNCHANGED <<err, file1, file2, header, hreads, properties, vertex_count,
                   struct_size, body1, data1, sample_size, sample1, sample2,
                   combined, out, notSplat>>

\* ------------------------------------------------- alignment and transform
\* Lines 238-240: data[:, :3]. np.array([]) of an empty record list has one
\* dimension, and indexing it with two raises IndexError.
ExtractPositions ==
    /\ pc = "positions"
    /\ IF data1 = 0 \/ data2 = 0
       THEN pc' = "failed" /\ err' = "IndexError"
       ELSE pc' = "visualize_before" /\ err' = err
    /\ UNCHANGED <<file1, file2, header, hreads, properties, vertex_count,
                   struct_size, body1, body2, data1, data2, sample_size, sample1,
                   sample2, combined, out, notSplat>>

\* visualize_points: only ImportError is caught; plt.savefig writes under the
\* fixed directory recent_splats/ and raises when it cannot (the directory is
\* missing when output_dir names another one).
Visualize(here, next) ==
    /\ pc = here
    /\ \E saved \in BOOLEAN :
         IF saved
         THEN pc' = next /\ err' = err
         ELSE pc' = "failed" /\ err' = "FileNotFoundError"
    /\ UNCHANGED <<file1, file2, header, hreads, properties, vertex_count,
                   struct_size, body1, body2, data1, data2, sample_size, sample1,
                   sample2, combined, out, notSplat>>

\* Line 243.
VisualizeBefore == Visualize("visualize_before", "sample")

\* Lines 252-260: np.random.choice(n, size, replace=False) raises ValueError
\* when size > n.
SamplePositions ==
    /\ pc = "sample"
    /\ IF data1 > sample_size
       THEN IF data2 < sample_size
            THEN /\ pc' = "failed" /\ err' = "ValueError"
                 /\ UNCHANGED <<sample1, sample2>>
            ELSE /\ pc' = "align" /\ err' = err
                 /\ sample1' = sample_size /\ sample2' = sample_size
       ELSE /\ pc' = "align" /\ err' = err
            /\ sample1' = data1 /\ sample2' = data2
    /\ UNCHANGED <<file1, file2, header, hreads, properties, vertex_count,
                   struct_size, body1, body2, data1, data2, sample_size,
                   combined, out, notSplat>>

\* find_transformation_matrix (line 263). With fewer than three columns the
\* 3x3 block assignments raise ValueError. A cloud of one point has scale 0 in
\* normalize_points, its normalised points are NaN and the neighbour search
\* rejects them with ValueError; a larger cloud does so when its points
\* coincide, which depends on the record values: either outcome is possible.
Align ==
    /\ pc = "align"
    /\ IF Len(properties) < PositionCols \/ sample1 < 2 \/ sample2 < 2
       THEN pc' = "failed" /\ err' = "ValueError"
       ELSE \E degenerate \in BOOLEAN :
              IF degenerate
              THEN pc' = "failed" /\ err' = "ValueError"
              ELSE pc' = "apply" /\ err' = err
    /\ UNCHANGED <<file1, file2, header, hreads, properties, vertex_count,
                   struct_size, body1, body2, data1, data2, sample_size, sample1,
                   sample2, combined, out, notSplat>>

\* np.array(data) has an integer dtype when every format is an integer one.
IntFormats == {"B", "I"}
IntDtype(props) == \A i \in 1..Len(props) : props[i][2] \in IntFormats

\* apply_transformation (line 267): `result[:, 3:6] *= scale_factor` raises on
\* an integer array (a float cannot be cast into it).
ApplyTransformation ==
    /\ pc = "apply"
    /\ IF IntDtype(properties)
       THEN pc' = "failed" /\ err' = "UFuncTypeError"
       ELSE pc' = "visualize_after" /\ err' = err
    /\ UNCHANGED <<file1, file2, header, hreads, properties, vertex_count,
                   struct_size, body1, body2, data1, data2, sample_size, sample1,
                   sample2, combined, out, notSplat>>

\* Line 270.
VisualizeAfter == Visualize("visualize_after", "combine")

\* The rows of an array of n records decoded from a file: the record values
\* are not modelled, a row is named by its file and its place in it, and
\* `transformed` tells whether apply_transformation returned it.
Rows(file, n, transformed) ==
    [i \in 1..n |-> [file |-> file, index |-> i, transformed |-> transformed]]

vstackSwapped(a, b) == b \o a

\* np.vstack([a, b])
vstack(a, b) == a \o b

\* Lines 272-275: np.vstack([data1, transformed_data2]); transformed_data2 is
\* the array apply_transformation returned for data2 (line 267), which holds
\* every row of it.
Combine ==
    /\ pc = "combine"
    /\ combined' = vstack(Rows(1, data1, FALSE), Rows(2, data2, TRUE))
    /\ pc' = "write_header"
    /\ UNCHANGED <<err, file1, file2, header, hreads, properties, vertex_count,
                   struct_size, body1, body2, data1, data2, sample_size, sample1,
                   sample2, out, notSplat>>

\* ------------------------------------------------------------- the writer
WrittenPropsReversed(props) ==
    [i \in 1..Len(props) |-> <<props[Len(props) + 1 - i][1], "float">>]

\* Lines 282-289: every property is declared `float`.
WrittenProps(props) == [i \in 1..Len(props) |-> <<props[i][1], "float">>]

WriteHeader ==
    /\ pc = "write_header"
    /\ out' = [exists |-> TRUE, declared |-> Len(combined),
               props |-> WrittenProps(properties), bodyLen |-> 0, rows |-> 0]
    /\ pc' = "write_rows"
    /\ UNCHANGED <<err, file1, file2, header, hreads, properties, vertex_count,
                   struct_size, body1, body2, data1, data2, sample_size, sample1,
                   sample2, combined, notSplat>>

\* struct.pack(struct_format, *row) of a row of floats: an integer format
\* refuses a float argument (struct.error); the other formats write their size.
PackFails(props) == \E i \in 1..Len(props) : props[i][2] \in IntFormats
PackedSize(props) == calcsize(props)

\* Lines 292-293, one row per step; the `with` block ends after the last row.
WriteRow ==
    /\ pc = "write_rows"
    /\ IF out.rows = Len(combined)
       THEN pc' = "done" /\ err' = err /\ out' = out
       ELSE IF PackFails(properties)
            THEN pc' = "failed" /\ err' = "struct.error" /\ out' = out
            ELSE /\ pc' = pc /\ err' = err
                 /\ out' = [out EXCEPT !.rows = @ + 1,
                                       !.bodyLen = @ + PackedSize(properties)]
    /\ UNCHANGED <<file1, file2, header, hreads, properties, vertex_count,
                   struct_size, body1, body2, data1, data2, sample_size, sample1,
                   sample2, combined, notSplat>>

NextSplat ==
    \/ Main
    \/ OpenSplat1
    \/ ReadHeader1Line
    \/ ParseHeader
    \/ ReadData1
    \/ SkipHeader2
    \/ ReadData2
    \/ ExtractPositions
    \/ VisualizeBefore
    \/ SamplePositions
    \/ Align
    \/ ApplyTransformation
    \/ VisualizeAfter
    \/ Combine
    \/ WriteHeader
    \/ WriteRow

SpecSplat == InitSplat /\ [][NextSplat]_vars

\* ------------------------------------------- structure-from-motion models
\* A model is the content of cameras.txt, images.txt and points3D.txt: the
\* camera identifiers, the poses [id, camera_id, name, obs] (obs: the point_id
\* of each observation, -1 for none) and the points [id, track] (track: the
\* (pose_id, observation_index) pairs).
Observed(point_id) == point_id >= 0
ObsChoices == {<<-1>>, <<1>>}
TrackChoices == {{}, {<<MaxId, 0>>}}

MinOf(S) == CHOOSE x \in S : \A y \in S : x <= y
MaxOf(S) == CHOOSE x \in S : \A y \in S : x >= y

PoseRec(tag, i, cam, o) == [id |-> i, camera_id |-> cam, name |-> <<tag, i>>, obs |-> o]
PointRec(i, t) == [id |-> i, track |-> t]

PoseSets(tag, cams) ==
    UNION {{{PoseRec(tag, i, MinOf(cams), o[i]) : i \in I} : o \in [I -> ObsChoices]} :
             I \in (SUBSET (1..MaxId)) \ {{}}}

PointSets ==
    UNION {{{PointRec(i, t[i]) : i \in I} : t \in [I -> TrackChoices]} :
             I \in SUBSET (1..MaxId)}

Models(tag) ==
    UNION {{[cameras |-> C, poses |-> P, points |-> Q] :
              P \in PoseSets(tag, C), Q \in PointSets} :
             C \in (SUBSET (1..MaxId)) \ {{}}}

Ids(S) == {e.id : e \in S}

SplatIdle ==
    /\ pc = "idle" /\ err = "none"
    /\ file1 = NoFile1
    /\ file2 = NoFile2
    /\ sample_size = 0 /\ sample1 = -1 /\ sample2 = -1
    /\ header = <<>> /\ hreads = 0
    /\ properties = <<>> /\ vertex_count = 0 /\ struct_size = 0
    /\ body1 = -1 /\ body2 = -1 /\ data1 = -1 /\ data2 = -1 /\ combined = <<>>
    /\ out = NoOut

InitSfm ==
    /\ rpc = "copy_main" /\ rerr = "none"
    /\ mainModel \in Models("main")
    /\ stagingModel \in Models("staging")
    /\ merged = NoModel
    /\ imageList = {} /\ tempList = FALSE
    /\ SplatIdle /\ RestIdle

\* extract_image_names: the name field of the first line of every pose.
extract_image_names(model) == {p.name : p \in model.poses}

\* register_new_images lines 36-42: rmtree(output_path), then
\* copytree(main_model_path, output_path).
CopyMainModel ==
    /\ rpc = "copy_main"
    /\ merged' = mainModel
    /\ rpc' = "copy_inputs"
    /\ UNCHANGED <<rerr, mainModel, stagingModel, imageList, tempList, notSfm>>

\* Lines 44-60: database.db and the images of both datasets are copied.
CopyInputs ==
    /\ rpc = "copy_inputs"
    /\ rpc' = "image_list"
    /\ UNCHANGED <<rerr, mainModel, stagingModel, merged, imageList, tempList, notSfm>>

\* Lines 62-67: the staging image names go to temp_image_list.txt.
WriteImageList ==
    /\ rpc = "image_list"
    /\ imageList' = extract_image_names(stagingModel)
    /\ tempList' = TRUE
    /\ rpc' = "feature_extractor"
    /\ UNCHANGED <<rerr, mainModel, stagingModel, merged, notSfm>>

\* run_command: subprocess.run(check=True) returns, or raises
\* CalledProcessError; the `finally` of lines 114-116 then unlinks the list.
CommandFails ==
    /\ rpc' = "failed" /\ rerr' = "CalledProcessError"
    /\ tempList' = FALSE
    /\ UNCHANGED <<mainModel, stagingModel, merged, imageList, notSfm>>

\* Lines 71-77 and 80-85: both tools write to the copied database only.
RunFeatureExtractor ==
    /\ rpc = "feature_extractor"
    /\ \/ /\ rpc' = "vocab_tree_matcher"
          /\ UNCHANGED <<rerr, mainModel, stagingModel, merged, imageList, tempList, notSfm>>
       \/ CommandFails

RunVocabTreeMatcher ==
    /\ rpc = "vocab_tree_matcher"
    /\ \/ /\ rpc' = "image_registrator"
          /\ UNCHANGED <<rerr, mainModel, stagingModel, merged, imageList, tempList, notSfm>>
       \/ CommandFails

\* What image_registrator can write to output_path. It is an external program;
\* its command line (lines 88-93) gives it the copied database and
\* main_model_path, and the image list named the staging images: it registers
\* some of them as new poses of the main model, each with a camera of the main
\* model or a new one. The staging model's cameras, poses and points are on no
\* command line.
Registered(main, names) ==
    {[cameras |-> main.cameras \cup newCams,
      poses |-> main.poses \cup
                  {[id |-> MaxOf(Ids(main.poses)) + n[2],
                    camera_id |-> IF newCams = {} THEN MinOf(main.cameras)
                                  ELSE MinOf(newCams),
                    name |-> n,
                    obs |-> <<-1>>] : n \in S},
      points |-> main.points] :
        S \in SUBSET names,
        newCams \in {{}, {MaxOf(main.cameras) + 1}}}

RunImageRegistrator ==
    /\ rpc = "image_registrator"
    /\ \/ /\ merged' \in Registered(mainModel, imageList)
          /\ rpc' = "bundle_adjuster"
          /\ UNCHANGED <<rerr, mainModel, stagingModel, imageList, tempList, notSfm>>
       \/ CommandFails

\* Lines 96-100 and 104-109: bundle_adjuster refines the coordinates of the
\* model under output_path and model_converter rewrites it as text; neither is
\* given another model.
RunBundleAdjuster ==
    /\ rpc = "bundle_adjuster"
    /\ \/ /\ rpc' = "model_converter"
          /\ UNCHANGED <<rerr, mainModel, stagingModel, merged, imageList, tempList, notSfm>>
       \/ CommandFails

RunModelConverter ==
    /\ rpc = "model_converter"
    /\ \/ /\ rpc' = "done"
          /\ tempList' = FALSE
          /\ UNCHANGED <<rerr, mainModel, stagingModel, merged, imageList, notSfm>>
       \/ CommandFails

NextSfm ==
    \/ CopyMainModel
    \/ CopyInputs
    \/ WriteImageList
    \/ RunFeatureExtractor
    \/ RunVocabTreeMatcher
    \/ RunImageRegistrator
    \/ RunBundleAdjuster
    \/ RunModelConverter

SpecSfm == InitSfm /\ [][NextSfm]_vars

\* ------------------------------------------ find_transformation_matrix
\* Points are triples of fixed-point numbers and a cloud is a sequence of
\* points: the integer n stands for the coordinate n / Grid. The clouds are
\* drawn from families on which every quotient of the code is a multiple of
\* 1 / Grid, so integer arithmetic computes what the floating-point code does.
Grid == 12
VAdd(a, b) == [i \in 1..3 |-> a[i] + b[i]]
VSub(a, b) == [i \in 1..3 |-> a[i] - b[i]]
VScale(k, a) == [i \in 1..3 |-> k * a[i]]
VDiv(a, k) == [i \in 1..3 |-> a[i] \div k]
Abs(x) == IF x < 0 THEN -x ELSE x
Zero3 == <<0, 0, 0>>
Identity3 == <<(<<1, 0, 0>>), (<<0, 1, 0>>), (<<0, 0, 1>>)>>

MatVec(M, v) == [i \in 1..3 |-> M[i][1] * v[1] + M[i][2] * v[2] + M[i][3] * v[3]]
MatMul(A, B) ==
    [i \in 1..3 |-> [j \in 1..3 |->
        A[i][1] * B[1][j] + A[i][2] * B[2][j] + A[i][3] * B[3][j]]]
MatScale(k, M) == [i \in 1..3 |-> VScale(k, M[i])]
Trace(M) == M[1][1] + M[2][2] + M[3][3]
Det3(M) ==
    M[1][1] * (M[2][2] * M[3][3] - M[2][3] * M[3][2])
    - M[1][2] * (M[2][1] * M[3][3] - M[2][3] * M[3][1])
    + M[1][3] * (M[2][1] * M[3][2] - M[2][2] * M[3][1])

RECURSIVE SumV(_)
SumV(points) == IF points = <<>> THEN Zero3 ELSE VAdd(Head(points), SumV(Tail(points)))

RECURSIVE SumInt(_)
SumInt(xs) == IF xs = <<>> THEN 0 ELSE Head(xs) + SumInt(Tail(xs))

\* np.mean(points, axis=0)
mean(points) == VDiv(SumV(points), Len(points))

\* np.max(np.abs(points))
MaxAbs(points) ==
    MaxOf({Abs(points[i][j]) : i \in 1..Len(points), j \in 1..3})

\* normalize_points: (normalized, centroid, scale). The centroid and the
\* scale are computed once and bound, as the code's local variables are.
normalize_points(points) ==
    LET centered(centroid) == [i \in 1..Len(points) |-> VSub(points[i], centroid)]
        normalized(centroid, scale) ==
            [normalized |-> [i \in 1..Len(points) |->
                               VDiv(VScale(Grid, VSub(points[i], centroid)), scale)],
             centroid |-> centroid,
             scale |-> scale]
        scaled(centroid) ==
            CHOOSE r \in {normalized(centroid, scale) :
                             scale \in {MaxAbs(centered(centroid))}} : TRUE
    IN CHOOSE r \in {scaled(centroid) : centroid \in {mean(points)}} : TRUE

\* Squared and (integer part of the) Euclidean distance of two points.
Dist2(p, q) ==
    (p[1] - q[1]) * (p[1] - q[1]) + (p[2] - q[2]) * (p[2] - q[2])
        + (p[3] - q[3]) * (p[3] - q[3])
Isqrt(n) == CHOOSE r \in 0..n : r * r <= n /\ n < (r + 1) * (r + 1)

\* nbrs.kneighbors: the index of the nearest target point.
kneighbors(p, targets) ==
    CHOOSE j \in 1..Len(targets) :
        \A k \in 1..Len(targets) : Dist2(p, targets[j]) <= Dist2(p, targets[k])

\* H = centered_source.T @ centered_target
CrossCovariance(src, tgt) ==
    [a \in 1..3 |-> [b \in 1..3 |->
        SumInt([i \in 1..Len(src) |-> src[i][a] * tgt[i][b]])]]

\* The rotations that map the coordinate axes onto one another.
AxisRotations ==
    {M \in {[i \in 1..3 |-> [j \in 1..3 |-> IF j = p[i] THEN g[i] ELSE 0]] :
               p \in {q \in [1..3 -> 1..3] : \A a, b \in 1..3 : q[a] = q[b] => a = b},
               g \in [1..3 -> {-1, 1}]} :
        Det3(M) = 1}

RotationLeast(H) ==
    LET best(score) ==
            CHOOSE R \in DOMAIN score : \A Q \in DOMAIN score : score[R] <= score[Q]
    IN CHOOSE R \in {best(score) :
                       score \in {[Q \in AxisRotations |-> Trace(MatMul(Q, H))]}} : TRUE

\* Lines 77-86: R = Vt.T @ U.T of the SVD of H, the last row of Vt negated when
\* det(R) < 0. That is the rotation R with the greatest trace(R @ H); for the
\* clouds of the family it is one of the axis rotations (H is symmetric and
\* positive definite, and R the identity).
Rotation(H) ==
    LET best(score) ==
            CHOOSE R \in DOMAIN score : \A Q \in DOMAIN score : score[R] >= score[Q]
    IN CHOOSE R \in {best(score) :
                       score \in {[Q \in AxisRotations |-> Trace(MatMul(Q, H))]}} : TRUE

\* A 4x4 transform as its rotation block and its translation column.
Transform(R, t) == [R |-> R, t |-> t]
Eye4 == Transform(Identity3, Zero3)
\* a @ b
Compose(a, b) == Transform(MatMul(a.R, b.R), VAdd(MatVec(a.R, b.t), a.t))

\* prev_error = float('inf')
Inf == -1
ConvergedNever(prev, cur) == FALSE

\* abs(prev_error - current_error) < tolerance, tolerance = 1e-6, of errors
\* that are integers.
Converged(prev, cur) == prev # Inf /\ Abs(prev - cur) < 1

\* Lines 112-114.
FinalTransformation(transformation_, global_scale, tcentroid, tscale, scentroid, sscale) ==
    Transform(MatScale(global_scale, transformation_.R),
              VDiv(VSub(VScale(tscale, tcentroid),
                        VScale(sscale, MatVec(MatScale(global_scale, transformation_.R),
                                              scentroid))),
                   Grid))

\* The family of clouds: a shape with centroid 0 and greatest coordinate 1,
\* spread by a factor and moved to a centre.
Tetrahedron == <<(<<1, 0, 0>>), (<<0, 1, 0>>), (<<0, 0, 1>>), (<<-1, -1, -1>>)>>
Octahedron == <<(<<1, 0, 0>>), (<<-1, 0, 0>>), (<<0, 1, 0>>), (<<0, -1, 0>>),
                (<<0, 0, 1>>), (<<0, 0, -1>>)>>
Shapes == {Tetrahedron, Octahedron}
Offsets == [1..3 -> 0..MaxCoord]
Translations == {VScale(k, <<1, 2, 3>>) : k \in 0..MaxShift}
Cloud(shape, centre, spread) ==
    [i \in 1..Len(shape) |-> VScale(Grid, VAdd(centre, VScale(spread, shape[i])))]

\* A comb: one tooth at each x of xs on each of the four edges y, z = +-1 of
\* the unit cube. Two combs are matched tooth by tooth along x, the
\* cross-covariance H of line 77 is diagonal and positive, and R the identity.
Comb(xs) ==
    [i \in 1..(4 * Len(xs)) |->
        <<xs[((i - 1) \div 4) + 1],
          IF (i - 1) % 4 < 2 THEN Grid ELSE -Grid,
          IF (i - 1) % 2 = 0 THEN Grid ELSE -Grid>>]
\* np.max(np.abs(centered)) is 0 for a cloud whose points coincide: the
\* normalised points are 0/0 = NaN.
Degenerate(points) == \A i \in 1..Len(points) : points[i] = points[1]

\* Source teeth at -1, 1/4, 3/4 against target teeth at -1, -3/4, 3/4, 1, and
\* the mirror image of the pair.
CombPairs ==
    {[source |-> Comb(<<-Grid, Grid \div 4, (3 * Grid) \div 4>>),
      target |-> Comb(<<-Grid, -((3 * Grid) \div 4), (3 * Grid) \div 4, Grid>>)],
     [source |-> Comb(<<-((3 * Grid) \div 4), -(Grid \div 4), Grid>>),
      target |-> Comb(<<-Grid, -((3 * Grid) \div 4), (3 * Grid) \div 4, Grid>>)]}

\* find_transformation_matrix(source_points, target_points, max_iterations):
\* either the target is the source under a known scale and translation (the
\* identity rotation), or the source is a comb and the target another comb or
\* a cloud of coinciding points (known.scale = 0).
\* On these clouds the loop ends in its second turn, so a max_iterations of 2
\* or more behaves as the default 50.
InitAlign ==
    /\ apc = "normalize"
    /\ \/ \E shape \in Shapes, centre \in Offsets, spread \in 1..MaxSpread,
             s \in 1..MaxScale, t \in Translations :
            /\ source_arg = Cloud(shape, centre, spread)
            /\ known = [scale |-> s, translation |-> VScale(Grid, t)]
            /\ target_arg = [i \in 1..Len(shape) |->
                               VAdd(VScale(s, Cloud(shape, centre, spread)[i]),
                                    VScale(Grid, t))]
       \/ \E pair \in CombPairs, point \in Offsets :
            /\ source_arg = pair.source
            /\ target_arg \in {pair.target, <<point>>, <<point, point>>}
            /\ known = [scale |-> 0, translation |-> Zero3]
    /\ max_iterations \in 0..MaxIter
    /\ iteration = 0
    /\ source_points = <<>> /\ target_normalized = <<>>
    /\ source_centroid = Zero3 /\ target_centroid = Zero3
    /\ source_scale = 0 /\ target_scale = 0
    /\ prev_error = Inf
    /\ transformation = Eye4
    /\ final_transformation = Eye4
    /\ SplatIdle /\ SfmIdle /\ TransformIdle /\ ParIdle /\ TextIdle /\ JobIdle

\* Lines 46-61. NearestNeighbors.fit (line 60) raises ValueError on a
\* normalised target that holds NaN.
Normalize ==
    /\ apc = "normalize"
    /\ IF Degenerate(target_arg)
       THEN /\ apc' = "failed"
            /\ UNCHANGED <<source_points, source_centroid, source_scale,
                           target_normalized, target_centroid, target_scale>>
       ELSE /\ \E s \in {normalize_points(source_arg)} :
                \E t \in {normalize_points(target_arg)} :
                  /\ source_points' = s.normalized
                  /\ source_centroid' = s.centroid
                  /\ source_scale' = s.scale
                  /\ target_normalized' = t.normalized
                  /\ target_centroid' = t.centroid
                  /\ target_scale' = t.scale
            /\ apc' = IF max_iterations = 0 THEN "compose" ELSE "loop"
    /\ transformation' = Eye4
    /\ prev_error' = Inf
    /\ UNCHANGED <<source_arg, target_arg, known, max_iterations, iteration,
                   final_transformation, notAlign>>

\* One turn of the loop, lines 63-108. source_centroid and target_centroid
\* are assigned anew in every turn (lines 70-71).
Iterate ==
    /\ apc = "loop"
    /\ \E indices \in {[i \in 1..Len(source_points) |->
                           kneighbors(source_points[i], target_normalized)]} :
       \E distances \in {[i \in 1..Len(source_points) |->
                Isqrt(Dist2(source_points[i], target_normalized[indices[i]]))]} :
       \E corresponding_points \in {[i \in 1..Len(source_points) |->
                                        target_normalized[indices[i]]]} :
       \E sc \in {mean(source_points)} :
       \E tc \in {mean(corresponding_points)} :
       \E centered_source \in {[i \in 1..Len(source_points) |->
                                   VSub(source_points[i], sc)]} :
       \E centered_target \in {[i \in 1..Len(source_points) |->
                                   VSub(corresponding_points[i], tc)]} :
       \E H \in {CrossCovariance(centered_source, centered_target)} :
       \E R \in {Rotation(H)} :
       \E t \in {VSub(tc, MatVec(R, sc))} :
       \E current_error \in {SumInt(distances) \div Len(source_points)} :
          /\ source_centroid' = sc
          /\ target_centroid' = tc
          /\ source_points' = [i \in 1..Len(source_points) |->
                                 VAdd(MatVec(R, source_points[i]), t)]
          /\ iteration' = iteration + 1
          /\ IF Converged(prev_error, current_error)
             THEN /\ apc' = "compose"
                  /\ UNCHANGED <<prev_error, transformation>>
             ELSE /\ prev_error' = current_error
                  /\ transformation' = Compose(Transform(R, t), transformation)
                  /\ apc' = IF iteration + 1 = max_iterations THEN "compose" ELSE "loop"
    /\ UNCHANGED <<source_arg, target_arg, known, max_iterations, target_normalized,
                   source_scale, target_scale, final_transformation, notAlign>>

\* Lines 110-116; global_scale = target_scale / source_scale (line 52).
ComposeFinal ==
    /\ apc = "compose"
    /\ final_transformation' =
          FinalTransformation(transformation, target_scale \div source_scale,
                              target_centroid, target_scale,
                              source_centroid, source_scale)
    /\ apc' = "done"
    /\ UNCHANGED <<source_arg, target_arg, known, max_iterations, iteration,
                   source_points, target_normalized, source_centroid,
                   target_centroid, source_scale, target_scale, prev_error,
                   transformation, notAlign>>

NextAlign ==
    \/ Normalize
    \/ Iterate
    \/ ComposeFinal

SpecAlign == InitAlign /\ [][NextAlign]_vars

\* The function runs in one thread and nothing suspends it: it takes its next
\* step whenever it has one.
SpecAlignLive == SpecAlign /\ WF_vars(NextAlign)

\* ------------------------------------------------- apply_transformation
\* A cell of the array is a fraction n/d with d >= 0: d = 0 stands for the
\* floating-point values inf (n > 0), -inf (n < 0) and NaN (n = 0), and the
\* product below then follows the floating-point rules (0 * inf = NaN).
Q(n, d) == [n |-> n, d |-> d]
QMul(x, y) == Q(x.n * y.n, x.d * y.d)
QEq(x, y) == x.d + x.n * x.n > 0 /\ y.d + y.n * y.n > 0 /\ x.n * y.d = y.n * x.d

\* np.clip(x, lo, hi) = minimum(maximum(x, lo), hi): NaN stays NaN.
clip(x, lo, hi) ==
    IF x.d = 0
    THEN (IF x.n = 0 THEN x ELSE IF x.n > 0 THEN hi ELSE lo)
    ELSE IF x.n * lo.d < lo.n * x.d THEN lo
    ELSE IF x.n * hi.d > hi.n * x.d THEN hi
    ELSE x

\* The record layouts: the one of the comment at line 140 (three rotation
\* columns, opacity last) and the splat point of the data model (four
\* orientation columns, opacity, then appearance coefficients).
Layouts ==
    {<<"position", "position", "position", "scale", "scale", "scale",
       "orientation", "orientation", "orientation", "opacity">>}
    \cup {<<"position", "position", "position", "scale", "scale", "scale",
            "orientation", "orientation", "orientation", "orientation", "opacity">>
            \o [i \in 1..k |-> "appearance"] : k \in 0..MaxAppearance}

\* A row of a layout: its position, one value for its scale columns, an
\* orientation column holding its index, its opacity and one value for its
\* appearance columns.
Row(cols, position, scale, opacity, appearance) ==
    [j \in 1..Len(cols) |->
        CASE cols[j] = "position" -> Q(position[j], 1)
          [] cols[j] = "scale" -> Q(scale, 1)
          [] cols[j] = "orientation" -> Q(j, 1)
          [] cols[j] = "opacity" -> opacity
          [] cols[j] = "appearance" -> Q(appearance, 1)]

Opacities == {Q(-1, 1), Q(0, 1), Q(1, 2), Q(2, 1)}

\* The transforms: scale * R and a translation, for the axis rotations R
\* whose diagonal has no zero or only zeros and for a scale that is a square
\* (the mean of the absolute diagonal and its square root are then integers).
AbsDiagSum(M) == Abs(M[1][1]) + Abs(M[2][2]) + Abs(M[3][3])
Transforms ==
    {Transform(MatScale(k * k, R), t) :
        k \in 1..MaxScale,
        R \in {M \in AxisRotations : AbsDiagSum(M) \in {0, 3}},
        t \in Translations}

InitTransform ==
    /\ tpc = "positions"
    /\ layout \in Layouts
    /\ \E position \in {Zero3, <<1, 2, 3>>}, scale \in 1..2, opacity \in Opacities,
          appearance \in {0, 3} :
         points_data = <<Row(layout, position, scale, opacity, appearance)>>
    /\ transform_arg \in Transforms
    /\ scale_properties \in BOOLEAN
    /\ result = <<>>
    /\ SplatIdle /\ SfmIdle /\ AlignIdle /\ ParIdle /\ TextIdle /\ JobIdle

\* Lines 122-134: result = points_data.copy(); result[:, :3] = the
\* transformed positions.
TransformPositions ==
    /\ tpc = "positions"
    /\ result' =
         [i \in 1..Len(points_data) |->
            [j \in 1..Len(layout) |->
               IF j <= PositionCols
               THEN Q(VAdd(MatVec(transform_arg.R,
                                  [c \in 1..3 |-> points_data[i][c].n]),
                           transform_arg.t)[j], 1)
               ELSE points_data[i][j]]]
    /\ tpc' = IF scale_properties THEN "scale" ELSE "done"
    /\ UNCHANGED <<layout, points_data, transform_arg, scale_properties, notTransform>>

\* Lines 136-151: columns 3, 4, 5 are multiplied by sqrt(scale) and the last
\* column by 1 / sqrt(scale), which is then clipped.
ScaleProperties ==
    /\ tpc = "scale"
    /\ \E scale_factor \in {Isqrt(AbsDiagSum(transform_arg.R) \div 3)} :
         result' =
           [i \in 1..Len(result) |->
              [j \in 1..Len(layout) |->
                 IF j = Len(layout)
                 THEN clip(QMul(IF j \in 4..6
                                THEN QMul(result[i][j], Q(scale_factor, 1))
                                ELSE result[i][j],
                                Q(1, scale_factor)),
                           Q(1, 10), Q(1, 1))
                 ELSE IF j \in 4..6
                 THEN QMul(result[i][j], Q(scale_factor, 1))
                 ELSE result[i][j]]]
    /\ tpc' = "done"
    /\ UNCHANGED <<layout, points_data, transform_arg, scale_properties, notTransform>>

NextTransform ==
    \/ TransformPositions
    \/ ScaleProperties

SpecTransform == InitTransform /\ [][NextTransform]_vars

\* --------------------------------------- two merge_splats processes
\* Two invocations of merge_splats in separate processes that share a working
\* directory, given distinct output directories. Of each invocation the model
\* keeps the files it writes; `writes` holds a [path, by] entry for every
\* path a process has written to.
Procs == {1, 2}
Dirs == {"recent_splats", "out_a", "out_b"}
Path(dir, name, ts) == [dir |-> dir, name |-> name, stamp |-> ts]

InitPar ==
    /\ ppc = [p \in Procs |-> "mkdir"]
    /\ output_dir \in {d \in [Procs -> Dirs] : d[1] # d[2]}
    /\ stamp \in [Procs -> 1..MaxTime]
    /\ matplotlib \in BOOLEAN
    /\ dirs \in {{}, {"recent_splats"}}
    /\ writes = {}
    /\ SplatIdle /\ SfmIdle /\ AlignIdle /\ TransformIdle /\ TextIdle /\ JobIdle

\* Line 194: output_dir.mkdir(exist_ok=True).
ParMkdir(p) ==
    /\ ppc[p] = "mkdir"
    /\ dirs' = dirs \cup {output_dir[p]}
    /\ ppc' = [ppc EXCEPT ![p] = "visualize_before"]
    /\ UNCHANGED <<output_dir, stamp, matplotlib, writes, notPar>>

\* visualize_points (lines 243 and 270): without matplotlib the ImportError
\* is caught and nothing is written; with it plt.savefig writes
\* recent_splats/<title>.png, and raises when that directory is missing.
ParVisualize(p) ==
    /\ ppc[p] \in {"visualize_before", "visualize_after"}
    /\ IF ~matplotlib
       THEN /\ writes' = writes
            /\ ppc' = [ppc EXCEPT ![p] = IF @ = "visualize_before"
                                         THEN "visualize_after" ELSE "write"]
       ELSE IF "recent_splats" \notin dirs
       THEN /\ writes' = writes
            /\ ppc' = [ppc EXCEPT ![p] = "failed"]
       ELSE /\ writes' = writes \cup
                  {[path |-> Path("recent_splats",
                                  IF ppc[p] = "visualize_before"
                                  THEN "before_alignment.png"
                                  ELSE "after_alignment.png", 0),
                    by |-> p]}
            /\ ppc' = [ppc EXCEPT ![p] = IF @ = "visualize_before"
                                         THEN "visualize_after" ELSE "write"]
    /\ UNCHANGED <<output_dir, stamp, matplotlib, dirs, notPar>>

\* Lines 278-293: output_dir / merged_splat_<timestamp>.ply is opened and
\* written.
ParWriteOutput(p) ==
    /\ ppc[p] = "write"
    /\ writes' = writes \cup
          {[path |-> Path(output_dir[p], "merged_splat.ply", stamp[p]), by |-> p]}
    /\ ppc' = [ppc EXCEPT ![p] = "done"]
    /\ UNCHANGED <<output_dir, stamp, matplotlib, dirs, notPar>>

NextPar ==
    \E p \in Procs :
        \/ ParMkdir(p)
        \/ ParVisualize(p)
        \/ ParWriteOutput(p)

SpecPar == InitPar /\ [][NextPar]_vars

\* ------------------------------------------- model text file line parsers
\* The data lines of images.txt (the first line of every pose) or of
\* points3D.txt, each line modelled by the number of fields split() gives.
\* Three functions decode them: extract_image_names, get_registered_images
\* and read_reconstruction_stats.
Parsers == {"extract_image_names", "get_registered_images", "read_reconstruction_stats"}
TextFiles == UNION {[1..n -> 0..MaxFields] : n \in 1..MaxLines}

\* The least number of fields of a pose line (the name is parts[9]) and of a
\* point line (the error is parts[7]).
Arity(fn) == IF fn = "read_reconstruction_stats" THEN PointArity ELSE PoseArity

\* A well-formed images.txt: a comment line (-1 fields), then for every pose
\* its line of PoseArity fields and the line of its observations, three
\* fields each, which is empty for a pose with none.
ImagesFiles ==
    {<<-1>> \o [i \in 1..(2 * Len(obs)) |->
                  IF i % 2 = 1 THEN PoseArity ELSE ObsArity * obs[i \div 2]] :
        obs \in UNION {[1..n -> 0..MaxObs] : n \in 0..MaxLines}}
\* The two functions that count the poses of images.txt.
PoseCounters == {"run_colmap", "run_colmap_with_sort"}

InitText ==
    /\ \/ parser \in Parsers /\ textLines \in TextFiles
       \/ parser \in PoseCounters /\ textLines \in ImagesFiles
    /\ lineno = 0 /\ accepted = 0
    /\ xpc = "lines" /\ xerr = "none"
    /\ SplatIdle /\ SfmIdle /\ AlignIdle /\ TransformIdle /\ ParIdle /\ JobIdle

\* What one line does to the function's run: <<xpc, xerr, accepted>>.
LineStep(outcome) ==
    /\ lineno < Len(textLines)
    /\ xpc = "lines"
    /\ lineno' = lineno + 1
    /\ xerr' = outcome[2]
    /\ accepted' = accepted + outcome[3]
    /\ xpc' = IF outcome[1] = "lines" /\ lineno + 1 = Len(textLines)
              THEN "returned" ELSE outcome[1]
    /\ UNCHANGED <<parser, textLines, notText>>

\* extract_image_names lines 20-24: a line of fewer than 2 fields is passed
\* over, parts[9] of a longer one raises IndexError when it is missing.
ExtractImageNamesLine ==
    /\ parser = "extract_image_names"
    /\ LineStep(LET n == textLines[lineno + 1] IN
                IF n < 2 THEN <<"lines", "none", 0>>
                ELSE IF n <= 9 THEN <<"raised", "IndexError", 0>>
                ELSE <<"lines", "none", 1>>)

\* get_registered_images lines 150-158: a line of fewer than 9 fields is
\* passed over; the IndexError of parts[9] on a line of 9 fields is caught by
\* `except Exception`, printed, and the names read so far are returned.
GetRegisteredImagesLine ==
    /\ parser = "get_registered_images"
    /\ LineStep(LET n == textLines[lineno + 1] IN
                IF n < 9 THEN <<"lines", "none", 0>>
                ELSE IF n <= 9 THEN <<"returned", "IndexError printed", 0>>
                ELSE <<"lines", "none", 1>>)

\* read_reconstruction_stats lines 40-49: a line of fewer than 4 fields is
\* passed over; a longer one is counted, then parts[6] or parts[7] raises
\* IndexError when it is missing.
ReadReconstructionStatsLine ==
    /\ parser = "read_reconstruction_stats"
    /\ LineStep(LET n == textLines[lineno + 1] IN
                IF n < 4 THEN <<"lines", "none", 0>>
                ELSE IF n <= 7 THEN <<"raised", "IndexError", 1>>
                ELSE <<"lines", "none", 1>>)

\* run_colmap.py lines 27-30, one line of the generator per step: a line is
\* counted when it is no comment and not blank.
CountImagesLine ==
    /\ parser = "run_colmap" /\ xpc = "lines"
    /\ IF lineno < Len(textLines)
       THEN /\ lineno' = lineno + 1
            /\ accepted' = accepted + (IF textLines[lineno + 1] > 0 THEN 1 ELSE 0)
            /\ xpc' = xpc
       ELSE \* registered_images = sum(...) // 2
            /\ accepted' = accepted \div 2
            /\ xpc' = "returned"
            /\ lineno' = lineno
    /\ UNCHANGED <<parser, textLines, xerr, notText>>

\* run_colmap_with_sort.py lines 38-55: comment and blank lines are passed
\* over; a line of 10 fields or more is counted and the line after it is read
\* as its observations.
CountImagesSortedLine ==
    /\ parser = "run_colmap_with_sort" /\ xpc = "lines"
    /\ IF lineno < Len(textLines)
       THEN /\ IF textLines[lineno + 1] >= 10
               THEN /\ accepted' = accepted + 1
                    /\ lineno' = IF lineno + 2 <= Len(textLines)
                                 THEN lineno + 2 ELSE lineno + 1
               ELSE /\ accepted' = accepted
                    /\ lineno' = lineno + 1
            /\ xpc' = xpc
       ELSE /\ xpc' = "returned"
            /\ UNCHANGED <<accepted, lineno>>
    /\ UNCHANGED <<parser, textLines, xerr, notText>>

NextText ==
    \/ ExtractImageNamesLine
    \/ GetRegisteredImagesLine
    \/ ReadReconstructionStatsLine
    \/ CountImagesLine
    \/ CountImagesSortedLine

SpecText == InitText /\ [][NextText]_vars

\* ================================================================ claims
\* ------------------------------------------------- server.py: splat jobs
\* One job, with job id 1.  Of the keys of its entry in splat_jobs the model
\* follows status, progress, splat_url and splat_filename; a key the entry
\* does not hold reads "absent".  Every store into the entry and every read
\* of it is a step of its own, as the job thread and the request threads of
\* the server run side by side.

InitJob ==
    /\ JobIdle
    /\ SplatIdle /\ SfmIdle /\ AlignIdle /\ TransformIdle /\ ParIdle /\ TextIdle

\* create_splat: the entry is stored and the thread started.
CreateSplat ==
    /\ jpc = "idle" /\ splat_jobs = <<>>
    /\ splat_jobs' = <<[status |-> "processing", progress |-> 0,
                        splat_url |-> "absent", splat_filename |-> "absent"]>>
    /\ jpc' = "start"
    /\ UNCHANGED <<hpc, response, requests>>
    /\ UNCHANGED notJob

\* The two "Update job status" blocks that precede the pipeline calls.
UpdateProgress ==
    /\ jpc \in {"start", "opensplat_start"}
    /\ splat_jobs' = [splat_jobs EXCEPT
                        ![1].progress = IF jpc = "start" THEN 10 ELSE 50]
    /\ jpc' = IF jpc = "start" THEN "colmap" ELSE "opensplat"
    /\ UNCHANGED <<hpc, response, requests>>
    /\ UNCHANGED notJob

\* run_colmap_pipeline returns statistics or raises, and the checks on the
\* statistics: at least half of the images registered, fewer, no image at
\* all, a RuntimeError, any other exception.
RunColmap ==
    /\ jpc = "colmap"
    /\ \E outcome \in {"registered", "insufficient", "none", "RuntimeError",
                       "Exception"} :
          CASE outcome = "registered" ->
                 /\ jpc' = "opensplat_start"
                 /\ UNCHANGED splat_jobs
            [] outcome = "Exception" ->
                 /\ jpc' = "except"
                 /\ UNCHANGED splat_jobs
            [] OTHER ->
                 /\ splat_jobs' = [splat_jobs EXCEPT ![1].status = "failed"]
                 /\ jpc' = "finished"
    /\ UNCHANGED <<hpc, response, requests>>
    /\ UNCHANGED notJob

\* run_opensplat_pipeline returns or raises.
RunOpenSplat ==
    /\ jpc = "opensplat"
    /\ \E raised \in BOOLEAN :
          IF raised
          THEN /\ splat_jobs' = [splat_jobs EXCEPT ![1].status = "failed"]
               /\ jpc' = "finished"
          ELSE /\ jpc' = "copy"
               /\ UNCHANGED splat_jobs
    /\ UNCHANGED <<hpc, response, requests>>
    /\ UNCHANGED notJob

\* The copy of splat.ply: makedirs or copy2 raises, the file is copied, or
\* the file does not exist.
CopySplat ==
    /\ jpc = "copy"
    /\ \E outcome \in {"copied", "missing", "OSError"} :
          CASE outcome = "copied" ->
                 /\ jpc' = "store_status"
                 /\ UNCHANGED splat_jobs
            [] outcome = "OSError" ->
                 /\ jpc' = "except"
                 /\ UNCHANGED splat_jobs
            [] OTHER ->
                 /\ splat_jobs' = [splat_jobs EXCEPT ![1].status = "failed"]
                 /\ jpc' = "finished"
    /\ UNCHANGED <<hpc, response, requests>>
    /\ UNCHANGED notJob

\* A StoreCompletion whose store of splat_url raises.
StoreCompletionRaising ==
    /\ jpc \in {"store_status", "store_progress", "store_url", "store_filename"}
    /\ CASE jpc = "store_status" ->
              /\ splat_jobs' = [splat_jobs EXCEPT ![1].status = "completed"]
              /\ jpc' = "store_progress"
         [] jpc = "store_progress" ->
              /\ splat_jobs' = [splat_jobs EXCEPT ![1].progress = 100]
              /\ jpc' = "store_url"
         [] jpc = "store_url" ->
              /\ jpc' = "except"
              /\ UNCHANGED splat_jobs
         [] OTHER ->
              /\ splat_jobs' = [splat_jobs EXCEPT ![1].splat_filename = "file"]
              /\ jpc' = "finished"
    /\ UNCHANGED <<hpc, response, requests>>
    /\ UNCHANGED notJob

\* The stores of a completed job, in the order of the code: status,
\* progress, (message,) splat_url, splat_filename.
StoreCompletion ==
    /\ jpc \in {"store_status", "store_progress", "store_url", "store_filename"}
    /\ CASE jpc = "store_status" ->
              /\ splat_jobs' = [splat_jobs EXCEPT ![1].status = "completed"]
              /\ jpc' = "store_progress"
         [] jpc = "store_progress" ->
              /\ splat_jobs' = [splat_jobs EXCEPT ![1].progress = 100]
              /\ jpc' = "store_url"
         [] jpc = "store_url" ->
              /\ splat_jobs' = [splat_jobs EXCEPT ![1].splat_url = "url"]
              /\ jpc' = "store_filename"
         [] OTHER ->
              /\ splat_jobs' = [splat_jobs EXCEPT ![1].splat_filename = "file"]
              /\ jpc' = "finished"
    /\ UNCHANGED <<hpc, response, requests>>
    /\ UNCHANGED notJob

\* A handler that logs the exception and stores nothing.
HandleExceptionSilent ==
    /\ jpc = "except"
    /\ jpc' = "finished"
    /\ UNCHANGED <<splat_jobs, hpc, response, requests>>
    /\ UNCHANGED notJob

\* The outer `except Exception` of process_splat_job.
HandleException ==
    /\ jpc = "except"
    /\ splat_jobs' = [splat_jobs EXCEPT ![1].status = "failed"]
    /\ jpc' = "finished"
    /\ UNCHANGED <<hpc, response, requests>>
    /\ UNCHANGED notJob

process_splat_job ==
    \/ UpdateProgress
    \/ RunColmap
    \/ RunOpenSplat
    \/ CopySplat
    \/ StoreCompletion
    \/ HandleException

\* get_splat_status is called: 404 for a job id splat_jobs does not hold.
GetSplatStatus ==
    /\ hpc \in {"idle", "returned"}
    /\ requests < MaxRequests
    /\ requests' = requests + 1
    /\ IF 1 \in DOMAIN splat_jobs
       THEN /\ hpc' = "status"
            /\ response' = [code |-> 200, status |-> "absent", progress |-> -1,
                            splat_url |-> "absent", splat_filename |-> "absent"]
       ELSE /\ hpc' = "returned"
            /\ response' = [code |-> 404, status |-> "absent", progress |-> -1,
                            splat_url |-> "absent", splat_filename |-> "absent"]
    /\ UNCHANGED <<splat_jobs, jpc>>
    /\ UNCHANGED notJob

\* The dict literal `response`: job['status'] is read, then job['progress'].
BuildResponse ==
    /\ hpc \in {"status", "progress"}
    /\ IF hpc = "status"
       THEN /\ response' = [response EXCEPT !.status = splat_jobs[1].status]
            /\ hpc' = "progress"
       ELSE /\ response' = [response EXCEPT !.progress = splat_jobs[1].progress]
            /\ hpc' = "completed"
    /\ UNCHANGED <<splat_jobs, jpc, requests>>
    /\ UNCHANGED notJob

\* "Add splat URL if completed" and the return.  job['status'] is read
\* again; job['splat_filename'] is read without a test that the key is
\* there, and a KeyError makes the response a 500.
FinishResponse ==
    /\ hpc \in {"completed", "filename"}
    /\ CASE hpc = "completed" /\ splat_jobs[1].status = "completed"
                              /\ splat_jobs[1].splat_url # "absent" ->
              /\ response' = [response EXCEPT !.splat_url = splat_jobs[1].splat_url]
              /\ hpc' = "filename"
         [] hpc = "completed" ->
              /\ hpc' = "returned"
              /\ UNCHANGED response
         [] hpc = "filename" /\ splat_jobs[1].splat_filename = "absent" ->
              /\ response' = [response EXCEPT !.code = 500]
              /\ hpc' = "returned"
         [] OTHER ->
              /\ response' = [response EXCEPT
                                !.splat_filename = splat_jobs[1].splat_filename]
              /\ hpc' = "returned"
    /\ UNCHANGED <<splat_jobs, jpc, requests>>
    /\ UNCHANGED notJob

NextJob ==
    \/ CreateSplat
    \/ process_splat_job
    \/ GetSplatStatus
    \/ BuildResponse
    \/ FinishResponse

SpecJob == InitJob /\ [][NextJob]_vars

\* The thread of a job is scheduled for as long as it can take a step.
SpecJobLive == SpecJob /\ WF_vars(process_splat_job)

\* ---------------------------------------------------- under SpecSplat

\* A binary region of b bytes ends in a partial record of the computed size.
PartialTrailingRecord(b) == b >= 0 /\ struct_size > 0 /\ b % struct_size # 0

\* C1: decoding a file whose binary region is not an exact multiple of the
\* record size fails with FormatError and returns no point list.
C1_PartialRecordIsFormatError ==
    /\ PartialTrailingRecord(body1) => (pc = "failed" /\ err = "FormatError" /\ data1 = -1)
    /\ PartialTrailingRecord(body2) => (pc = "failed" /\ err = "FormatError" /\ data2 = -1)

\* The property types a header declares, in order.
RECURSIVE ParseTypes(_)
ParseTypes(lines) ==
    IF lines = <<>> THEN <<>>
    ELSE IF Head(lines).k = "property"
         THEN <<Head(lines).t>> \o ParseTypes(Tail(lines))
         ELSE ParseTypes(Tail(lines))

HasUnknownType(lines) ==
    \E i \in 1..Len(lines) : lines[i].k = "property" /\ lines[i].t \notin KnownTypes

\* C7: decoding a header that declares a property of an unrecognised numeric
\* type fails with FormatError: once the header of such a file has been read
\* and parsed, the merge has failed with that error.
C7_UnknownTypeIsFormatError ==
    (Terminated(file1) /\ HasUnknownType(file1.lines) /\ pc \notin {"header1", "parse"})
        => (pc = "failed" /\ err = "FormatError")

\* C8: decoding a file with no end_header line terminates and fails with
\* FormatError: a header reader that has been handed the end of file (a
\* readline() beyond the last line) has stopped with that error.
C8_UnterminatedHeaderIsFormatError ==
    /\ (~Terminated(file1) /\ ~file1.binTail /\ hreads > Len(file1.lines))
          => (pc = "failed" /\ err = "FormatError")
    /\ (data1 >= 0 /\ ~file2.terminated /\ ~file2.binTail /\ hreads > 0)
          => (pc = "failed" /\ err = "FormatError")

\* C9: a file the encoder has written declares every property as 32-bit float
\* and its body holds 4 bytes per declared property per point.
C9_WrittenRecordsAreFloat32 ==
    pc = "done" =>
        /\ \A i \in 1..Len(out.props) : out.props[i][2] = "float"
        /\ out.bodyLen = FloatSize * Len(out.props) * out.declared

\* C10: a file accepted on decode, and a file produced on encode, declares an
\* element count equal to the number of records in its binary region.
C10_DeclaredCountIsRecordCount ==
    /\ (data1 >= 0 /\ struct_size > 0) => vertex_count = body1 \div struct_size
    /\ pc = "done" => out.declared = out.rows

\* The property lines of a header as <<name, type name>>, in header order.
RECURSIVE HeaderProps(_)
HeaderProps(hdr) ==
    IF hdr = <<>> THEN <<>>
    ELSE IF Head(hdr).k = "property"
         THEN <<(<<Head(hdr).n, Head(hdr).t>>)>> \o HeaderProps(Tail(hdr))
         ELSE HeaderProps(Tail(hdr))

\* The points a written file decodes to, read back with the record size of
\* its own header.
Redecoded(o) ==
    ReadRecords(o.bodyLen,
                calcsize(ParseProps(HeaderLines(o.declared,
                             [i \in 1..Len(o.props) |-> o.props[i][2]], TRUE))),
                0)

\* C11: re-encoding the decoded schema and points yields a file, for every
\* property type of the header, and that file decodes to the number of points
\* that were encoded.
C11_RoundTripKeepsPointCount ==
    /\ err # "struct.error"
    /\ pc = "done" => Redecoded(out) = Len(combined)

\* C12 as stated: the written header lists the same property names, in the
\* same order and with the same numeric types, as the header of splat1_path.
C12_OutputHeaderKeepsNamesAndTypes ==
    out.exists => out.props = HeaderProps(file1.lines)

\* C12, amended: the written header lists the same property names in the same
\* order as the header of splat1_path, and declares every one of them float.
C12_OutputHeaderKeepsNamesAsFloat ==
    out.exists =>
        /\ Len(out.props) = Len(HeaderProps(file1.lines))
        /\ \A i \in 1..Len(out.props) :
              /\ out.props[i][1] = HeaderProps(file1.lines)[i][1]
              /\ out.props[i][2] = "float"

C12_Witness ==
    /\ out.exists /\ pc = "done" /\ Len(out.props) = MaxProps
    /\ \E i \in 1..Len(out.props) : HeaderProps(file1.lines)[i][2] = "double"

MissingInput == ~file1.exists \/ ~file2.exists
NotFoundErrors == {"FileNotFoundError", "not found"}

C21_AlignmentUsesMinOfSizeAndSample ==
    /\ sample1 # -1 =>
          /\ sample1 = (IF data1 < sample_size THEN data1 ELSE sample_size)
          /\ sample2 = (IF data2 < sample_size THEN data2 ELSE sample_size)
    /\ ~(pc = "failed" /\ err = "ValueError" /\ sample1 = -1 /\ data2 > 0)

\* C25: each input is decoded with the record size its own header declares:
\* once splat2_path has been read, the records taken from it are the whole
\* records of that size in its binary region.
C25_EachFileDecodedByOwnHeader ==
    /\ data1 # -1 => data1 = ReadRecords(body1, RecordSize(ParseTypes(file1.lines)), 0)
    /\ data2 # -1 => data2 = ReadRecords(body2, RecordSize(file2.types), 0)

\* C26: the merged cloud is the rows of splat1_path, untransformed and in
\* file order, followed by the rows of splat2_path, transformed and in file
\* order, data1 + data2 rows in all, also when each cloud was sampled for the
\* alignment.
C26_MergedIsFirstThenTransformedSecond ==
    combined # <<>> =>
        /\ Len(combined) = data1 + data2
        /\ \A i \in 1..data1 :
              combined[i] = [file |-> 1, index |-> i, transformed |-> FALSE]
        /\ \A i \in 1..data2 :
              combined[data1 + i] = [file |-> 2, index |-> i, transformed |-> TRUE]

C26_Witness ==
    /\ pc = "done" /\ combined # <<>>
    /\ sample1 < data1 /\ sample2 < data2 /\ out.rows = data1 + data2

\* ------------------------------------------------------ under SpecAlign

\* C13: for a target made of the source by a known scale and translation (and
\* the identity rotation), the transform returned under the default
\* max_iterations has that rotation, scale and translation.
C13_KnownTransformRecovered ==
    (apc = "done" /\ max_iterations = MaxIter /\ known.scale > 0) =>
        final_transformation =
            Transform(MatScale(known.scale, Identity3), known.translation)

\* C14: aligning a cloud of the family to itself returns the identity
\* transform: unit rotation, unit scale, zero translation.
C14_SelfAlignmentIsIdentity ==
    (apc = "done" /\ target_arg = source_arg) => final_transformation = Eye4

C14_Witness ==
    /\ apc = "done" /\ target_arg = source_arg
    /\ iteration = 2 /\ mean(source_arg) # Zero3
    /\ source_scale = Grid * MaxSpread

\* C20: whatever number of turns the loop took, the translation column is
\* the expression of line 114 on the centroids of the two argument clouds and
\* their scales.
C20_TranslationFromOriginalCentroids ==
    apc = "done" =>
        final_transformation.t =
            FinalTransformation(transformation, target_scale \div source_scale,
                                mean(target_arg), target_scale,
                                mean(source_arg), source_scale).t

\* C22: at exit of the loop the accumulated transformation is the composition
\* of every step that was applied to the working source points: applied to
\* the normalised source cloud it yields the working source points, whether
\* the loop ended by convergence or by max_iterations.
C22_AccumulatedIsAppliedComposition ==
    apc \in {"compose", "done"} =>
        \A i \in 1..Len(source_points) :
            source_points[i] =
                VAdd(MatVec(transformation.R,
                            normalize_points(source_arg).normalized[i]),
                     transformation.t)

\* ---------------------------------------------------- under SpecAlignLive

\* np.mean(distances) of the turn that starts in this state.
CurrentError ==
    SumInt([i \in 1..Len(source_points) |->
              Isqrt(Dist2(source_points[i],
                          target_normalized[kneighbors(source_points[i],
                                                       target_normalized)]))])
        \div Len(source_points)

\* A turn of the loop leaves it exactly when its error is within the
\* tolerance of the previous turn's or it was turn number max_iterations.
ExitsAtFirstConvergence ==
    (apc = "loop" /\ iteration' # iteration) =>
        /\ iteration' = iteration + 1
        /\ (apc' # "loop") <=>
               \/ prev_error # Inf /\ Abs(prev_error - CurrentError) < 1
               \/ iteration' = max_iterations

InOpacityRange(x) == x.d > 0 /\ 10 * x.n >= x.d /\ x.n <= x.d

\* C15: with attribute scaling enabled, the opacity attribute of every
\* returned point lies in [0.1, 1.0], for every input point and transform.
C15_OpacityIsClamped ==
    (tpc = "done" /\ scale_properties) =>
        \A i \in 1..Len(result) : \A j \in 1..Len(layout) :
            layout[j] = "opacity" => InOpacityRange(result[i][j])

\* C24: for a transform whose block is s * R, s > 0 and R a rotation, the
\* scalar derived at line 138 (the mean of the absolute diagonal) is s, the
\* cube root of the block's determinant: (3 * mean)^3 = 27 * det.
C24_DerivedScaleIsBlockScale ==
    (tpc = "done" /\ scale_properties) =>
        AbsDiagSum(transform_arg.R) * AbsDiagSum(transform_arg.R)
            * AbsDiagSum(transform_arg.R) = 27 * Det3(transform_arg.R)

\* C16: every orientation attribute and every appearance coefficient of
\* every returned point equals its value in the input, for every record
\* layout.
C16_OrientationAndAppearanceKept ==
    tpc = "done" =>
        \A i \in 1..Len(result) : \A j \in 1..Len(layout) :
            layout[j] \in {"orientation", "appearance"}
                => QEq(result[i][j], points_data[i][j])

\* ------------------------------------------------------ under SpecPar

\* C18: two invocations with distinct output directories never write to a
\* common file: no path is written by both processes.
C18_NoCommonFile ==
    \A a, b \in writes : a.path = b.path => a.by = b.by

\* ------------------------------------------------------ under SpecText

\* C19: a decoded pose or point line that has fields, but fewer than its
\* minimum arity, has made the decoding fail with FormatError.
C19_ShortLineIsFormatError ==
    \A i \in 1..lineno :
        (textLines[i] >= 1 /\ textLines[i] < Arity(parser))
            => (xpc = "raised" /\ xerr = "FormatError")

\* The pose records of an images.txt.
PoseRecords(lines) == Cardinality({i \in 1..Len(lines) : lines[i] = PoseArity})

\* C27: for a well-formed images.txt the count of registered images that is
\* returned is the number of its pose records, a pose with an empty
\* observation line included.
C27_RegisteredImagesIsPoseCount ==
    (parser \in PoseCounters /\ xpc = "returned") => accepted = PoseRecords(textLines)

\* ------------------------------------------------------ under SpecSfm

\* The offset the merge is to add to the identifiers of model B.
Offset(ids) == MaxOf(ids) + 1

\* The merge has ended and every image of model B was registered.
MergedAll ==
    /\ rpc = "done"
    /\ extract_image_names(stagingModel) \subseteq {p.name : p \in merged.poses}

\* C4, for the point collection (the identifiers the registered poses and
\* their cameras get are the external tool's choice): the merged model has
\* |A.points| + |B.points| points, no point of either input is lost.
C4_MergeConservesCounts ==
    MergedAll =>
        Cardinality(merged.points) =
            Cardinality(mainModel.points) + Cardinality(stagingModel.points)

\* C5, for the point collection: every model-B point with identifier i is in
\* the merged model under i + max(model-A point identifiers) + 1, and every
\* model-A point is in it under its own identifier with its fields unchanged.
C5_MergeOffsetsModelB ==
    (MergedAll /\ mainModel.points # {}) =>
        /\ \A x \in stagingModel.points :
              \E y \in merged.points :
                  y.id = x.id + Offset(Ids(mainModel.points))
        /\ mainModel.points \subseteq merged.points

\* A track entry names a pose, or an observation a point, the model lacks.
Dangling(m) ==
    \/ \E x \in m.points : \E e \in x.track : e[1] \notin Ids(m.poses)
    \/ \E p \in m.poses : \E i \in 1..Len(p.obs) :
          Observed(p.obs[i]) /\ p.obs[i] \notin Ids(m.points)

\* C6: with such an entry in an input model the merge ends in IntegrityError
\* and has written no merged model.
C6_DanglingReferenceIsIntegrityError ==
    ((Dangling(mainModel) \/ Dangling(stagingModel)) /\ rpc \in {"done", "failed"})
        => (rerr = "IntegrityError" /\ merged = NoModel)

\* -------------------------------------------------------- under SpecJob

\* C28: every status response that reports status 'completed' also reports
\* progress 100 and carries the job's splat_url and splat_filename, whatever
\* the interleaving of the request with the thread of the job.
C28_CompletedResponseIsComplete ==
    (hpc = "returned" /\ response.code = 200 /\ response.status = "completed") =>
        /\ response.progress = 100
        /\ response.splat_url = "url"
        /\ response.splat_filename = "file"

Final == {"completed", "failed"}

\* C30: the status of a job is 'processing', 'completed' or 'failed'; the job
\* is registered as 'processing'; once the status is 'completed' or 'failed'
\* no step changes it; and no step lowers the progress.
C30_StatusLifecycle ==
    /\ [](\A j \in DOMAIN splat_jobs :
             splat_jobs[j].status \in {"processing"} \cup Final)
    /\ [][\A j \in DOMAIN splat_jobs' :
             IF j \in DOMAIN splat_jobs
             THEN /\ splat_jobs[j].status \in Final =>
                        splat_jobs'[j].status = splat_jobs[j].status
                  /\ splat_jobs'[j].progress >= splat_jobs[j].progress
             ELSE splat_jobs'[j].status = "processing"]_vars

C30_Witness ==
    /\ jpc = "finished" /\ splat_jobs[1].status = "completed"
    /\ splat_jobs[1].progress = 100 /\ splat_jobs[1].splat_filename = "file"

\* ---------------------------------------------------- under SpecJobLive

\* C29: a registered job eventually has status 'completed' or 'failed', the
\* pipeline calls returning or raising.
C29_JobEventuallyEnds ==
    (1 \in DOMAIN splat_jobs) ~>
        (1 \in DOMAIN splat_jobs /\ splat_jobs[1].status \in Final)

\* A job that ended as failed after run_colmap_pipeline had returned.
C29_Witness ==
    /\ jpc = "finished" /\ splat_jobs[1].status = "failed"
    /\ splat_jobs[1].progress = 50

====
